---- MODULE Spec2Model ----
(***************************************************************************)
(* The typing game of src/src/components/TypingGame.tsx as a state machine. *)
(*                                                                         *)
(* A string is a sequence of one-character strings, so that indexing,      *)
(* trimming, lower-casing and the special-character mapping are computed   *)
(* character by character as the code does.  Phrase indexes are 0-based as *)
(* in the code; sequences are 1-based, hence the "+ 1" where a phrase or a *)
(* character is read.                                                      *)
(*                                                                         *)
(* One action is one event handler or timer callback together with the     *)
(* re-render and the effects (useEffect) it triggers.                      *)
(***************************************************************************)
EXTENDS Integers, Sequences, FiniteSets, TLC

VARIABLES
    currentSetKey,       \* useState l.33
    currentPhraseIndex,  \* useState l.34 (0-based)
    displayPhrase,       \* useState l.35
    typingPhrase,        \* useState l.36
    userInput,           \* useState l.37
    currentIndex,        \* useState l.38: the cursor (0-based)
    customPhrase,        \* useState l.39: the custom-phrase text field
    startTime,           \* useState l.44: Null, or the milliseconds elapsed
                         \*   since the stored instant (Date.now() - startTime)
    elapsedTime,         \* useState l.45: whole seconds shown
    isTimerRunning,      \* useState l.46
    previousTime,        \* useState l.47: Null or seconds
    storedTimes,         \* localStorage "typingTime-<typing phrase>": NoItem
                         \*   or the stored decimal string
    timeouts,            \* the setTimeout callbacks of l.280 not yet run, oldest
                         \*   first: what each closure captured, the delay left
                         \*   and (history) whether no user event came since
    pollDue,             \* the setInterval callback of l.196 is due and not yet run
    mounted,             \* the component is mounted (React unmounts the tree when
                         \*   an effect throws)
    thrown,              \* the exception the last event handler raised, or "none"
    spoken,              \* the utterances the speech synthesizer holds, the
                         \*   one being spoken first (l.326-348)
    intervals,           \* how many setInterval timers of l.196 are live
    timerRefLive,        \* timerRef.current (l.60) is the id of a live interval
    showKeyboard,        \* useState l.40-43
    showSpaceCharacter,  \* useState l.48-51
    enableKeyTTS,        \* useState l.52-55
    storedPrefs,         \* localStorage "typing-game-<flag>": NoItem or the text
    loadedPrefs,         \* (history) what getItem returned for each flag when
                         \*   the component was constructed (l.41, l.49, l.53)
    phrase,              \* part_000, useState l.5: the phrase of the
                         \*   single-phrase component
    restarts             \* part_000: the delays left of the setTimeout
                         \*   callbacks of l.64 not yet run, oldest first

vars == <<currentSetKey, currentPhraseIndex, displayPhrase, typingPhrase,
          userInput, currentIndex, customPhrase, startTime, elapsedTime,
          isTimerRunning, previousTime, storedTimes, timeouts, pollDue,
          mounted, thrown, spoken, intervals, timerRefLive, showKeyboard,
          showSpaceCharacter, enableKeyTTS, storedPrefs, loadedPrefs,
          phrase, restarts>>

session == <<currentSetKey, currentPhraseIndex, displayPhrase, typingPhrase,
             userInput, currentIndex, startTime, elapsedTime, isTimerRunning,
             previousTime, storedTimes>>

\* The three preference flags and what is stored of them
prefs == <<showKeyboard, showSpaceCharacter, enableKeyTTS, storedPrefs,
           loadedPrefs>>

\* The state that only the single-phrase component (part_000) has
single == <<phrase, restarts>>

\* null where a number may stand (startTime, previousTime): no number of the
\* program is negative
Null == -1

\* What localStorage.getItem gives for a missing key: null, which the code tests
\* only for truthiness (l.174, l.302), as it would the empty string
NoItem == <<>>

----------------------------------------------------------------------------
(* Bounds of the model                                                     *)

\* The timer is followed up to this many whole seconds.
MaxSeconds == 1
\* At most this many auto-advance timeouts are outstanding at once.
MaxTimeouts == 1
\* The same, where the user leaves the custom-phrase form alone (FairSpec).
FairMaxTimeouts == 2
\* Custom phrases of up to this many characters are set up (SetupSpec).
MaxTextLen == 3
\* At most this many restart timeouts of the single-phrase component are
\* outstanding at once (SinglePhraseSpec).
MaxRestarts == 2

(* Program constants                                                       *)

MsPerSecond == 1000
AdvanceDelayMs == 3000
RestartDelayMs == 3000

----------------------------------------------------------------------------
(* Strings                                                                 *)

UpperCase == <<"A", "B", "C", "D", "E", "F", "G", "H", "I", "J", "K", "L", "M",
               "N", "O", "P", "Q", "R", "S", "T", "U", "V", "W", "X", "Y", "Z">>
LowerCase == <<"a", "b", "c", "d", "e", "f", "g", "h", "i", "j", "k", "l", "m",
               "n", "o", "p", "q", "r", "s", "t", "u", "v", "w", "x", "y", "z">>

\* String.prototype.toLowerCase on one character
LowerChar(c) ==
    IF \E n \in 1..Len(UpperCase) : UpperCase[n] = c
    THEN LowerCase[CHOOSE n \in 1..Len(UpperCase) : UpperCase[n] = c]
    ELSE c

\* String.prototype.toLowerCase
ToLowerCase(s) == [n \in 1..Len(s) |-> LowerChar(s[n])]

IsSpace(c) == c = " "

RECURSIVE TrimStart(_)
TrimStart(s) ==
    IF s # <<>> /\ IsSpace(Head(s)) THEN TrimStart(Tail(s)) ELSE s

RECURSIVE TrimEnd(_)
TrimEnd(s) ==
    IF s # <<>> /\ IsSpace(s[Len(s)])
    THEN TrimEnd(SubSeq(s, 1, Len(s) - 1))
    ELSE s

\* String.prototype.trim
Trim(s) == TrimEnd(TrimStart(s))

Digits == <<"0", "1", "2", "3", "4", "5", "6", "7", "8", "9">>

\* Number.prototype.toString of a non-negative integer
RECURSIVE NumToString(_)
NumToString(n) ==
    IF n < 10 THEN <<Digits[n + 1]>>
    ELSE Append(NumToString(n \div 10), Digits[(n % 10) + 1])

DigitValue(c) == (CHOOSE n \in 1..10 : Digits[n] = c) - 1

\* parseInt(s, 10) of a string of decimal digits
RECURSIVE ParseInt(_)
ParseInt(s) ==
    IF Len(s) = 1 THEN DigitValue(s[1])
    ELSE 10 * ParseInt(SubSeq(s, 1, Len(s) - 1)) + DigitValue(s[Len(s)])

----------------------------------------------------------------------------
(* Phrases                                                                 *)

\* specialCharMap (l.10-28), as Object.entries lists it: each display character
\* with its typing equivalent.  A character outside ASCII is written by its
\* name ("trademark" is U+2122); the equivalent '' is the empty sequence.
specialCharMap ==
    << <<"sub2", <<"2">> >>,
       <<"sub3", <<"3">> >>,
       <<"sub4", <<"4">> >>,
       <<"sub1", <<"1">> >>,
       <<"endash", <<"-">> >>,
       <<"emdash", <<"-">> >>,
       <<"degree", <<"o">> >>,
       <<"ge", <<">">> >>,
       <<"le", <<"<">> >>,
       <<"plusminus", <<"+">> >>,
       <<"times", <<"x">> >>,
       <<"micro", <<"u">> >>,
       <<"trademark", <<>> >>,
       <<"registered", <<>> >>,
       <<"copyright", <<>> >> >>

\* Mutant of ReplaceAll: replace without the g flag, the first occurrence only
ReplaceFirst(s, display, typing) ==
    LET from[rest \in Seq(STRING)] ==
            IF rest = <<>> THEN <<>>
            ELSE IF Head(rest) = display THEN typing \o Tail(rest)
            ELSE <<Head(rest)>> \o from[Tail(rest)]
    IN from[s]

\* l.68: s.replace(new RegExp(display, 'g'), typing), character by character
\* from the left
ReplaceAll(s, display, typing) ==
    LET from[rest \in Seq(STRING)] ==
            IF rest = <<>> THEN <<>>
            ELSE (IF Head(rest) = display THEN typing ELSE <<Head(rest)>>)
                 \o from[Tail(rest)]
    IN from[s]

\* l.67-69: the forEach over the entries, from entry n on
RECURSIVE typingVersion(_, _)
typingVersion(text, n) ==
    IF n > Len(specialCharMap) THEN text
    ELSE typingVersion(ReplaceAll(text, specialCharMap[n][1],
                                  specialCharMap[n][2]), n + 1)

\* l.63-75
setupPhrase(originalPhrase) ==
    [display |-> originalPhrase, typing |-> typingVersion(originalPhrase, 1)]

\* part_000 l.5: the phrase the single-phrase component starts with
InitialPhrase ==
    <<"t", "h", "e", " ", "q", "u", "i", "c", "k", " ", "b", "r", "o", "w", "n", " ", "f", "o", "x", " ", "j", "u", "m", "p", "s",
      " ", "o", "v", "e", "r", " ", "t", "h", "e", " ", "l", "a", "z", "y", " ", "d", "o", "g">>

\* The phrase sets (phraseSets.json), by set key
availableSets ==
    [familySet |-> << <<"H", "i", "!">>, <<"c", "a", "t">> >>,
     petSet    |-> << <<"c", "a", "t">> >>]

SetKeys == DOMAIN availableSets

\* What the user can type into the custom-phrase field
CustomTexts ==
    { <<>>, <<" ">>, <<" ", "trademark">>, <<"c", "a", "t", "registered">> }

\* The values of event.key the user can produce
Keys == { <<"h">>, <<"H">>, <<"i">>, <<"!">>, <<"1">>, <<"a">>, <<"c">>,
          <<"t">>, <<"S", "h", "i", "f", "t">> }

\* Custom phrases with words, upper case, a shifted symbol ("@") and a
\* character no key has ("~"), and the keys that type them (ViewSpec)
ViewTexts == { <<"A", "b", " ", "c", "@">>, <<"~", "2">> }

ViewKeys == { <<"a">>, <<"b">>, <<" ">>, <<"c">>, <<"@">>, <<"~">>, <<"2">>,
              <<"x">> }

\* Custom phrases of up to MaxTextLen characters, with a letter, a character
\* that is mapped to another and one that is removed (SetupSpec)
SetupChars == { "a", "sub2", "trademark" }

SetupTexts == UNION { [1..n -> SetupChars] : n \in 0..MaxTextLen }

\* Every typing phrase the model can install
TypingPhrases ==
    UNION { { setupPhrase(availableSets[k][n]).typing :
                n \in 1..Len(availableSets[k]) } : k \in SetKeys }
    \cup { setupPhrase(Trim(t)).typing :
             t \in CustomTexts \cup ViewTexts \cup SetupTexts }

----------------------------------------------------------------------------
(* Preferences                                                             *)

\* A preference flag holds a JavaScript value, written by its name: "true" and
\* "false", and "0" and "null", which JSON.parse can also give.  "undefined" is
\* the flag of a component whose construction failed.
PrefNames == {"showKeyboard", "showSpaceCharacter", "enableKeyTTS"}

JsonTrue == <<"t", "r", "u", "e">>
JsonFalse == <<"f", "a", "l", "s", "e">>
JsonNull == <<"n", "u", "l", "l">>
JsonZero == <<"0">>

\* What localStorage can hold for a flag when the page loads: nothing, what the
\* program stores, and texts it never stores
StoredPrefSamples == {NoItem, JsonTrue, JsonFalse, JsonZero, <<"y", "e", "s">>}

\* JSON.parse on the texts above: the value, or a SyntaxError
JSONparse(text) ==
    LET t == Trim(text) IN
    CASE t = JsonTrue -> [ok |-> TRUE, value |-> "true"]
      [] t = JsonFalse -> [ok |-> TRUE, value |-> "false"]
      [] t = JsonNull -> [ok |-> TRUE, value |-> "null"]
      [] t = JsonZero -> [ok |-> TRUE, value |-> "0"]
      [] OTHER -> [ok |-> FALSE, value |-> "undefined"]

\* Mutant of JSONstringify: every value is written as true
JSONstringifyTrue(value) == JsonTrue

\* JSON.stringify on the value of a flag
JSONstringify(value) ==
    CASE value = "true" -> JsonTrue
      [] value = "false" -> JsonFalse
      [] value = "0" -> JsonZero
      [] OTHER -> JsonNull

\* A value in a condition (l.237) and under "!" (l.691, l.709, l.727)
Truthy(value) == value = "true"

Not(value) == IF Truthy(value) THEN "false" ELSE "true"

\* l.40-43, l.48-51, l.52-55: the initial value of a flag, given what getItem
\* returned for it
PrefInitialiser(saved) ==
    IF saved # NoItem THEN JSONparse(saved) ELSE [ok |-> TRUE, value |-> "true"]

\* The construction of the component fails when an initialiser throws.
Constructs(stored) == \A name \in PrefNames : PrefInitialiser(stored[name]).ok

\* l.517-527: the effect that stores a flag, as it runs for all three on mount
SavePrefs(stored, keyboard, space, tts) ==
    [stored EXCEPT !["showKeyboard"] = JSONstringify(keyboard),
                   !["showSpaceCharacter"] = JSONstringify(space),
                   !["enableKeyTTS"] = JSONstringify(tts)]

\* The flags and the storage after the component is constructed and mounted
\* over the given storage
InitPrefs(stored) ==
    /\ loadedPrefs = stored
    /\ IF Constructs(stored)
       THEN /\ showKeyboard = PrefInitialiser(stored["showKeyboard"]).value
            /\ showSpaceCharacter =
                 PrefInitialiser(stored["showSpaceCharacter"]).value
            /\ enableKeyTTS = PrefInitialiser(stored["enableKeyTTS"]).value
            /\ storedPrefs =
                 SavePrefs(stored,
                           PrefInitialiser(stored["showKeyboard"]).value,
                           PrefInitialiser(stored["showSpaceCharacter"]).value,
                           PrefInitialiser(stored["enableKeyTTS"]).value)
       ELSE /\ showKeyboard = "undefined"
            /\ showSpaceCharacter = "undefined"
            /\ enableKeyTTS = "undefined"
            /\ storedPrefs = stored

----------------------------------------------------------------------------
(* The keyboard on screen                                                  *)

\* l.90-96
keyboardLayout ==
    << <<"1", "2", "3", "4", "5", "6", "7", "8", "9", "0", "-", "=">>,
       <<"q", "w", "e", "r", "t", "y", "u", "i", "o", "p", "[", "]">>,
       <<"a", "s", "d", "f", "g", "h", "j", "k", "l", ";", "'">>,
       <<"z", "x", "c", "v", "b", "n", "m", ",", ".", "/">>,
       <<" ">> >>

\* l.99-104 as Object.entries lists it (l.363): the integer-like keys in
\* ascending order, then the others as written.  "dquote" is the double quote.
shiftSymbols ==
    << <<"0", ")">>, <<"1", "!">>, <<"2", "@">>, <<"3", "#">>, <<"4", "$">>,
       <<"5", "%">>, <<"6", "^">>, <<"7", "&">>, <<"8", "*">>, <<"9", "(">>,
       <<"-", "_">>, <<"=", "+">>, <<";", ":">>, <<"'", "dquote">>,
       <<",", "<">>, <<".", ">">>, <<"/", "?">>, <<"[", "{">>, <<"]", "}">> >>

\* null where a position may stand: no row or key has a negative index
NoPosition == [rowIndex |-> 0 - 1, keyIndex |-> 0 - 1]

\* null where a character may stand (l.380)
NoChar == ""

\* Array.prototype.indexOf, 0-based, -1 when absent
indexOf(row, c) ==
    IF \E n \in 1..Len(row) : row[n] = c
    THEN (CHOOSE n \in 1..Len(row) :
            row[n] = c /\ \A m \in 1..(n - 1) : row[m] # c) - 1
    ELSE 0 - 1

\* l.355-360 and l.366-371: the first row, from rowIndex on, that has the key
RECURSIVE scanLayout(_, _)
scanLayout(rowIndex, c) ==
    IF rowIndex >= Len(keyboardLayout) THEN NoPosition
    ELSE IF indexOf(keyboardLayout[rowIndex + 1], c) # 0 - 1
         THEN [rowIndex |-> rowIndex,
               keyIndex |-> indexOf(keyboardLayout[rowIndex + 1], c)]
         ELSE scanLayout(rowIndex + 1, c)

\* l.363-373: the entries from the n-th on, for the character as given
RECURSIVE scanShiftSymbols(_, _)
scanShiftSymbols(n, char) ==
    IF n > Len(shiftSymbols) THEN NoPosition
    ELSE IF shiftSymbols[n][2] = char
            /\ scanLayout(0, shiftSymbols[n][1]) # NoPosition
         THEN scanLayout(0, shiftSymbols[n][1])
         ELSE scanShiftSymbols(n + 1, char)

\* Mutant of findKeyPosition: the character is looked up as given
findKeyPositionAsGiven(char) ==
    IF scanLayout(0, char) # NoPosition
    THEN scanLayout(0, char)
    ELSE scanShiftSymbols(1, char)

\* l.350-377
findKeyPosition(char) ==
    LET lowerChar == LowerChar(char) IN
    IF scanLayout(0, lowerChar) # NoPosition
    THEN scanLayout(0, lowerChar)
    ELSE scanShiftSymbols(1, char)

\* l.380-381
nextChar ==
    IF currentIndex < Len(typingPhrase)
    THEN typingPhrase[currentIndex + 1]
    ELSE NoChar

keyPosition ==
    IF nextChar # NoChar THEN findKeyPosition(nextChar) ELSE NoPosition

\* String.prototype.substring(from, to), 0-based, for from <= to
substring(s, from, to) == SubSeq(s, from + 1, to)

\* l.116-118
RECURSIVE wordStartFrom(_)
wordStartFrom(wordStart) ==
    IF wordStart > 0 /\ typingPhrase[wordStart] # " "
    THEN wordStartFrom(wordStart - 1)
    ELSE wordStart

\* l.121-123
RECURSIVE wordEndFrom(_)
wordEndFrom(wordEnd) ==
    IF wordEnd < Len(typingPhrase) /\ typingPhrase[wordEnd + 1] # " "
    THEN wordEndFrom(wordEnd + 1)
    ELSE wordEnd

\* l.107-132
getCurrentWordInfo ==
    IF currentIndex >= Len(typingPhrase)
    THEN [currentWord |-> <<>>, remainingLetters |-> <<>>]
    ELSE LET wordStart == wordStartFrom(currentIndex)
             wordEnd == wordEndFrom(currentIndex)
         IN [currentWord |-> substring(typingPhrase, wordStart, wordEnd),
             remainingLetters |->
                IF currentIndex < wordEnd
                THEN substring(typingPhrase, currentIndex + 1, wordEnd)
                ELSE <<>>]

----------------------------------------------------------------------------
(* Speech                                                                  *)

\* speechSynthesis.cancel() (l.329, l.342): every utterance is dropped
cancel(queue) == <<>>

\* speechSynthesis.speak(utterance) (l.335, l.347): the utterance is queued
speak(queue, utterance) == Append(queue, utterance)

\* l.326-337: the utterance of a key, given the queue of the synthesizer
speakLetter(queue, letter) ==
    speak(cancel(queue), IF letter = <<" ">> THEN <<"space">> ELSE letter)

\* Mutant of speakPhrase: the request does not cancel what is queued
speakPhraseNoCancel(queue, text) == speak(queue, text)

\* l.339-348
speakPhrase(queue, text) == speak(cancel(queue), text)

\* Mutant of timeDifference: final minus previous
timeDifferenceReversed(previous, finalTime) == finalTime - previous

\* l.258-260: the difference computed when there is a previous time
timeDifference(previous, finalTime) == previous - finalTime

\* Math.abs
Abs(n) == IF n < 0 THEN 0 - n ELSE n

\* l.268-272
improvementText(difference) ==
    IF difference > 0
    THEN <<"You were ">> \o NumToString(Abs(difference))
            \o <<" seconds faster!">>
    ELSE IF difference < 0
         THEN <<"You were ">> \o NumToString(Abs(difference))
                 \o <<" seconds slower.">>
         ELSE <<"You matched your previous time exactly!">>

\* l.266-277: the text given to speakPhrase on completion
completionText(previous, finalTime) ==
    <<"Great job! You finished in ">> \o NumToString(finalTime)
       \o <<" seconds. ">>
       \o (IF previous # Null
           THEN improvementText(timeDifference(previous, finalTime))
           ELSE <<"That's your first attempt with this phrase.">>)

----------------------------------------------------------------------------
(* Effects                                                                 *)

\* l.194-212: the timer effect, run after the handler and the effects above
\* have set the primed state.  It runs when isTimerRunning or startTime
\* changed (the instant in startTime changes only when it is set or cleared);
\* its cleanup (l.207-211) first clears the interval timerRef names, as does
\* the unmounting of the component.
TimerDepsChanged ==
    \/ isTimerRunning' # isTimerRunning
    \/ (startTime' = Null) # (startTime = Null)

\* Mutant of TimerEffect: no cleanup, the old interval is left running
TimerEffectNoCleanup ==
    IF ~mounted' \/ (TimerDepsChanged /\ ~isTimerRunning')
    THEN UNCHANGED intervals /\ timerRefLive' = FALSE
    ELSE IF TimerDepsChanged
         THEN intervals' = intervals + 1 /\ timerRefLive' = TRUE
         ELSE UNCHANGED <<intervals, timerRefLive>>

TimerEffect ==
    LET cleared == IF timerRefLive THEN intervals - 1 ELSE intervals IN
    IF ~mounted' \/ (TimerDepsChanged /\ ~isTimerRunning')
    THEN intervals' = cleared /\ timerRefLive' = FALSE
    ELSE IF TimerDepsChanged
         THEN intervals' = cleared + 1 /\ timerRefLive' = TRUE
         ELSE UNCHANGED <<intervals, timerRefLive>>

\* l.173-178 and l.301-306: the time stored for a typing phrase, parsed
LoadPreviousTime(typing, stored) ==
    IF stored[typing] # NoItem THEN ParseInt(stored[typing]) ELSE Null

\* Mutant of PhraseDepsChanged: the set key is not among the dependencies
PhraseDepsIndexOnly(setKey, index) == index # currentPhraseIndex

\* The effect of l.78-87 runs when the set key or the phrase index changed.
PhraseDepsChanged(setKey, index) ==
    setKey # currentSetKey \/ index # currentPhraseIndex

\* l.82: phrases[index] is undefined past the end of the set, and setupPhrase
\* then throws a TypeError (l.68) inside the effect.
PhraseEffectThrows(setKey, index) ==
    /\ PhraseDepsChanged(setKey, index)
    /\ Len(availableSets[setKey]) > 0
    /\ index + 1 > Len(availableSets[setKey])

\* The phrase after the effect of l.78-87
PhraseAfterEffect(setKey, index) ==
    IF PhraseDepsChanged(setKey, index)
       /\ Len(availableSets[setKey]) > 0
       /\ ~PhraseEffectThrows(setKey, index)
    THEN setupPhrase(availableSets[setKey][index + 1])
    ELSE [display |-> displayPhrase, typing |-> typingPhrase]

\* The effects a handler's re-render triggers once it has set the set key, the
\* phrase index and previousTime (prev): the phrase effect (l.78-87), and,
\* when the typing phrase changed, the load of its stored time (l.166-179).
\* An effect that throws unmounts the component.
PhraseEffects(setKey, index, prev) ==
    LET phraseData == PhraseAfterEffect(setKey, index) IN
    /\ displayPhrase' = phraseData.display
    /\ typingPhrase' = phraseData.typing
    /\ previousTime' = IF phraseData.typing # typingPhrase
                       THEN LoadPreviousTime(phraseData.typing, storedTimes)
                       ELSE prev
    /\ mounted' = ~PhraseEffectThrows(setKey, index)
    /\ thrown' = IF PhraseEffectThrows(setKey, index) THEN "TypeError" ELSE "none"

----------------------------------------------------------------------------
(* Handlers                                                                *)

\* History: a user event marks every outstanding timeout as no longer fresh.
UserActed(pending) ==
    [n \in DOMAIN pending |-> [pending[n] EXCEPT !.fresh = FALSE]]

\* What the program holds of the outstanding timeouts, without the history
Closures(pending) ==
    [n \in DOMAIN pending |->
        [setKey |-> pending[n].setKey, index |-> pending[n].index,
         delay |-> pending[n].delay]]

\* Mutant of goToNextPhrase: setUserInput("") is missing
goToNextPhraseKeepsInput(setKey, index) ==
    LET nextPhraseIndex == (index + 1) % Len(availableSets[setKey]) IN
    /\ currentPhraseIndex' = nextPhraseIndex
    /\ currentIndex' = 0
    /\ startTime' = Null
    /\ elapsedTime' = 0
    /\ isTimerRunning' = FALSE
    /\ pollDue' = FALSE
    /\ PhraseEffects(currentSetKey, nextPhraseIndex, Null)
    /\ UNCHANGED <<currentSetKey, userInput, customPhrase, storedTimes>>

\* l.135-147, with the set key and phrase index its closure holds
goToNextPhrase(setKey, index) ==
    LET nextPhraseIndex == (index + 1) % Len(availableSets[setKey]) IN
    /\ currentPhraseIndex' = nextPhraseIndex
    /\ userInput' = <<>>
    /\ currentIndex' = 0
    /\ startTime' = Null
    /\ elapsedTime' = 0
    /\ isTimerRunning' = FALSE
    /\ pollDue' = FALSE
    /\ PhraseEffects(currentSetKey, nextPhraseIndex, Null)
    /\ UNCHANGED <<currentSetKey, customPhrase, storedTimes>>

\* l.150-163
goToPrevPhrase ==
    LET n == Len(availableSets[currentSetKey])
        prevPhraseIndex == (currentPhraseIndex - 1 + n) % n IN
    /\ currentPhraseIndex' = prevPhraseIndex
    /\ userInput' = <<>>
    /\ currentIndex' = 0
    /\ startTime' = Null
    /\ elapsedTime' = 0
    /\ isTimerRunning' = FALSE
    /\ pollDue' = FALSE
    /\ PhraseEffects(currentSetKey, prevPhraseIndex, Null)
    /\ UNCHANGED <<currentSetKey, customPhrase, storedTimes>>

\* Mutant of handleSetChange: setElapsedTime(0) is missing
handleSetChangeKeepsElapsed(newSetKey) ==
    /\ currentSetKey' = newSetKey
    /\ currentPhraseIndex' = 0
    /\ userInput' = <<>>
    /\ currentIndex' = 0
    /\ startTime' = Null
    /\ isTimerRunning' = FALSE
    /\ pollDue' = FALSE
    /\ PhraseEffects(newSetKey, 0, previousTime)
    /\ UNCHANGED <<elapsedTime, customPhrase, storedTimes>>

\* l.314-323
handleSetChange(newSetKey) ==
    /\ currentSetKey' = newSetKey
    /\ currentPhraseIndex' = 0
    /\ userInput' = <<>>
    /\ currentIndex' = 0
    /\ startTime' = Null
    /\ elapsedTime' = 0
    /\ isTimerRunning' = FALSE
    /\ pollDue' = FALSE
    /\ PhraseEffects(newSetKey, 0, previousTime)
    /\ UNCHANGED <<customPhrase, storedTimes>>

\* Mutant of handlePhraseSubmit: setCurrentIndex(0) is missing
handlePhraseSubmitKeepsCursor ==
    IF Trim(customPhrase) # <<>>
    THEN LET phraseData == setupPhrase(Trim(customPhrase)) IN
         /\ displayPhrase' = phraseData.display
         /\ typingPhrase' = phraseData.typing
         /\ userInput' = <<>>
         /\ customPhrase' = <<>>
         /\ startTime' = Null
         /\ elapsedTime' = 0
         /\ isTimerRunning' = FALSE
         /\ pollDue' = FALSE
         /\ previousTime' = LoadPreviousTime(phraseData.typing, storedTimes)
         /\ thrown' = "none"
         /\ UNCHANGED <<currentSetKey, currentPhraseIndex, currentIndex,
                        storedTimes, mounted>>
    ELSE /\ thrown' = "none"
         /\ UNCHANGED <<session, customPhrase, pollDue, mounted>>

\* Mutant of handlePhraseSubmit: the field is cleared before the text is tested
handlePhraseSubmitClearsField ==
    IF Trim(customPhrase) # <<>>
    THEN LET phraseData == setupPhrase(Trim(customPhrase)) IN
         /\ displayPhrase' = phraseData.display
         /\ typingPhrase' = phraseData.typing
         /\ userInput' = <<>>
         /\ currentIndex' = 0
         /\ customPhrase' = <<>>
         /\ startTime' = Null
         /\ elapsedTime' = 0
         /\ isTimerRunning' = FALSE
         /\ pollDue' = FALSE
         /\ previousTime' = LoadPreviousTime(phraseData.typing, storedTimes)
         /\ thrown' = "none"
         /\ UNCHANGED <<currentSetKey, currentPhraseIndex, storedTimes, mounted>>
    ELSE /\ thrown' = "none"
         /\ customPhrase' = <<>>
         /\ UNCHANGED <<session, pollDue, mounted>>

\* l.287-312
handlePhraseSubmit ==
    IF Trim(customPhrase) # <<>>
    THEN LET phraseData == setupPhrase(Trim(customPhrase)) IN
         /\ displayPhrase' = phraseData.display
         /\ typingPhrase' = phraseData.typing
         /\ userInput' = <<>>
         /\ currentIndex' = 0
         /\ customPhrase' = <<>>
         /\ startTime' = Null
         /\ elapsedTime' = 0
         /\ isTimerRunning' = FALSE
         /\ pollDue' = FALSE
         /\ previousTime' = LoadPreviousTime(phraseData.typing, storedTimes)
         /\ thrown' = "none"
         /\ UNCHANGED <<currentSetKey, currentPhraseIndex, storedTimes, mounted>>
    ELSE /\ thrown' = "none"
         /\ UNCHANGED <<session, customPhrase, pollDue, mounted>>

\* l.743: the custom-phrase field follows what is typed into it
handleCustomPhraseChange(text) ==
    /\ customPhrase' = text
    /\ thrown' = "none"
    /\ UNCHANGED <<session, pollDue, mounted>>

\* l.230-232: the expected character and the case-insensitive comparison.
\* typingPhrase[currentIndex] is undefined at or past the end of the phrase.
ExpectedDefined == currentIndex < Len(typingPhrase)

expectedChar == typingPhrase[currentIndex + 1]

\* Mutant of isMatch: the comparison without toLowerCase
isMatchCaseSensitive(key) == key = <<expectedChar>>

isMatch(key) == ToLowerCase(key) = ToLowerCase(<<expectedChar>>)

\* l.225: the first key press of an attempt starts the timer
StartsTimer == currentIndex = 0 /\ startTime = Null

\* l.250: the key completes the phrase
Completes(key) ==
    ExpectedDefined /\ isMatch(key) /\ currentIndex + 1 = Len(typingPhrase)

\* Mutant of newUserInput: the typed key is appended as typed
newUserInputTyped(key) == userInput \o key

\* l.242: the typed text grows by the phrase's own character
newUserInput(key) == Append(userInput, expectedChar)

\* l.246
newIndex == currentIndex + 1

\* Mutant of scheduleAutoAdvance: the setTimeout call is missing
scheduleNothing == UserActed(timeouts)

\* l.280-282: the auto-advance is set, its closure holding goToNextPhrase of
\* this render, that is the set key and phrase index on screen
scheduleAutoAdvance ==
    Append(UserActed(timeouts),
           [setKey |-> currentSetKey, index |-> currentPhraseIndex,
            delay |-> AdvanceDelayMs, fresh |-> TRUE])

\* l.221-285.  The state updates queued before an exception are still applied.
\* A completing key asks for two utterances: the letter (l.237-239), then the
\* completion text.
handleKeyPress(key) ==
    LET started == IF StartsTimer THEN 0 ELSE startTime
        running == IF StartsTimer THEN TRUE ELSE isTimerRunning
    IN
    /\ startTime' = started
    /\ IF ~ExpectedDefined
       THEN \* l.232: undefined.toLowerCase()
            /\ thrown' = "TypeError"
            /\ UNCHANGED spoken
            /\ isTimerRunning' = running
            /\ timeouts' = UserActed(timeouts)
            /\ UNCHANGED <<userInput, currentIndex, storedTimes>>
       ELSE /\ thrown' = "none"
            /\ IF isMatch(key)
               THEN /\ userInput' = newUserInput(key)
                    /\ currentIndex' = newIndex
                    /\ IF newIndex = Len(typingPhrase)
                       THEN LET finalTime == elapsedTime IN
                            /\ isTimerRunning' = FALSE
                            /\ spoken' =
                                 speakPhrase(
                                    IF Truthy(enableKeyTTS)
                                    THEN speakLetter(spoken, key)
                                    ELSE spoken,
                                    completionText(previousTime, finalTime))
                            /\ storedTimes' =
                                 [storedTimes EXCEPT
                                    ![typingPhrase] = NumToString(finalTime)]
                            /\ timeouts' = scheduleAutoAdvance
                       ELSE /\ isTimerRunning' = running
                            /\ spoken' = IF Truthy(enableKeyTTS)
                                         THEN speakLetter(spoken, key)
                                         ELSE spoken
                            /\ timeouts' = UserActed(timeouts)
                            /\ UNCHANGED storedTimes
               ELSE /\ isTimerRunning' = running
                    /\ UNCHANGED spoken
                    /\ timeouts' = UserActed(timeouts)
                    /\ UNCHANGED <<userInput, currentIndex, storedTimes>>
    /\ pollDue' = (pollDue /\ isTimerRunning')
    /\ UNCHANGED <<currentSetKey, currentPhraseIndex, displayPhrase,
                   typingPhrase, customPhrase, elapsedTime, previousTime,
                   mounted>>

\* l.196-202: the interval callback
pollElapsed ==
    /\ elapsedTime' = IF startTime # Null
                      THEN startTime \div MsPerSecond
                      ELSE elapsedTime
    /\ pollDue' = FALSE
    /\ thrown' = "none"
    /\ UNCHANGED spoken
    /\ UNCHANGED <<currentSetKey, currentPhraseIndex, displayPhrase,
                   typingPhrase, userInput, currentIndex, customPhrase,
                   startTime, isTimerRunning, previousTime, storedTimes,
                   timeouts, mounted, intervals, timerRefLive, prefs,
                   single>>

----------------------------------------------------------------------------
(* The state machine                                                       *)

\* The state after construction and mount over the stored preferences.  When
\* an initialiser throws, the first render fails and nothing is mounted.
InitOver(stored) ==
    LET phraseData == setupPhrase(availableSets["familySet"][1]) IN
    /\ currentSetKey = "familySet"
    /\ currentPhraseIndex = 0
    /\ displayPhrase = phraseData.display
    /\ typingPhrase = phraseData.typing
    /\ userInput = <<>>
    /\ currentIndex = 0
    /\ customPhrase = <<>>
    /\ startTime = Null
    /\ elapsedTime = 0
    /\ isTimerRunning = FALSE
    /\ storedTimes = [t \in TypingPhrases |-> NoItem]
    /\ previousTime = Null
    /\ timeouts = <<>>
    /\ pollDue = FALSE
    /\ mounted = Constructs(stored)
    /\ thrown = IF Constructs(stored) THEN "none" ELSE "SyntaxError"
    /\ spoken = <<>>
    /\ intervals = 0
    /\ timerRefLive = FALSE
    /\ InitPrefs(stored)
    /\ phrase = InitialPhrase
    /\ restarts = <<>>

\* A browser that has stored nothing yet
Init == InitOver([name \in PrefNames |-> NoItem])

\* A key goes down in the hidden input (l.538), with room for the timeout a
\* completion sets
KeyPressWithin(maxTimeouts) ==
    \E key \in Keys :
        /\ mounted
        /\ Completes(key) => Len(timeouts) < maxTimeouts
        /\ handleKeyPress(key)
        /\ TimerEffect
        /\ UNCHANGED <<prefs, single>>

KeyPress == KeyPressWithin(MaxTimeouts)

\* The "next" button (l.658)
NextClick ==
    /\ mounted
    /\ goToNextPhrase(currentSetKey, currentPhraseIndex)
    /\ timeouts' = UserActed(timeouts)
    /\ UNCHANGED spoken
    /\ TimerEffect
    /\ UNCHANGED <<prefs, single>>

\* The "previous" button (l.651)
PrevClick ==
    /\ mounted
    /\ goToPrevPhrase
    /\ timeouts' = UserActed(timeouts)
    /\ UNCHANGED spoken
    /\ TimerEffect
    /\ UNCHANGED <<prefs, single>>

\* Another option of the set selector is chosen (l.637-638)
SetChange ==
    \E newSetKey \in SetKeys \ {currentSetKey} :
        /\ mounted
        /\ handleSetChange(newSetKey)
        /\ timeouts' = UserActed(timeouts)
        /\ UNCHANGED spoken
        /\ TimerEffect
        /\ UNCHANGED <<prefs, single>>

\* The custom-phrase field is edited (l.742-743)
CustomPhraseChange ==
    \E text \in CustomTexts \ {customPhrase} :
        /\ mounted
        /\ handleCustomPhraseChange(text)
        /\ timeouts' = UserActed(timeouts)
        /\ UNCHANGED spoken
        /\ TimerEffect
        /\ UNCHANGED <<prefs, single>>

\* The custom-phrase form is submitted (l.739)
PhraseSubmit ==
    /\ mounted
    /\ handlePhraseSubmit
    /\ timeouts' = UserActed(timeouts)
    /\ UNCHANGED spoken
    /\ TimerEffect
    /\ UNCHANGED <<prefs, single>>

\* A second passes: the resolution at which the program records time (l.199).
\* Of the interval callbacks of that second (one every 100 ms, l.202) only the
\* last can change elapsedTime, and it is the one that becomes due.  No callback
\* that is due is left waiting, and the running timer is followed up to
\* MaxSeconds.
Tick ==
    /\ ~pollDue
    /\ \A n \in DOMAIN timeouts : timeouts[n].delay > 0
    /\ isTimerRunning => startTime + MsPerSecond <= MaxSeconds * MsPerSecond
    /\ timeouts' = [n \in DOMAIN timeouts |->
                      [timeouts[n] EXCEPT !.delay = @ - MsPerSecond]]
    /\ startTime' = IF isTimerRunning THEN startTime + MsPerSecond ELSE startTime
    /\ pollDue' = (intervals > 0)
    /\ thrown' = "none"
    /\ UNCHANGED spoken
    /\ UNCHANGED <<currentSetKey, currentPhraseIndex, displayPhrase,
                   typingPhrase, userInput, currentIndex, customPhrase,
                   elapsedTime, isTimerRunning, previousTime, storedTimes,
                   mounted, intervals, timerRefLive, prefs,
                   single>>

\* The interval callback runs (l.196-202)
Poll ==
    /\ pollDue
    /\ pollElapsed

\* The oldest timeout callback runs once its delay is over (l.280-282).  On an
\* unmounted component its state updates do nothing.
AutoAdvance ==
    /\ timeouts # <<>>
    /\ Head(timeouts).delay = 0
    /\ timeouts' = Tail(timeouts)
    /\ IF mounted
       THEN goToNextPhrase(Head(timeouts).setKey, Head(timeouts).index)
       ELSE /\ thrown' = "none"
            /\ UNCHANGED <<session, customPhrase, pollDue, mounted>>
    /\ UNCHANGED spoken
    /\ TimerEffect
    /\ UNCHANGED <<prefs, single>>

\* The synthesizer has spoken an utterance to its end; it goes on to the next
\* one it holds, whether or not the component is still mounted.
UtteranceEnd ==
    /\ spoken # <<>>
    /\ spoken' = Tail(spoken)
    /\ thrown' = "none"
    /\ UNCHANGED <<session, customPhrase, timeouts, pollDue, mounted,
                   intervals, timerRefLive, prefs,
                   single>>

\* The synthesizer is silent.  The component never reads what the synthesizer
\* holds; Spec and FairSpec let an utterance end before the next event, and
\* ViewSpec lets the events overtake it.
Quiet == spoken = <<>>

Next ==
    \/ Quiet /\ KeyPress
    \/ Quiet /\ NextClick
    \/ Quiet /\ PrevClick
    \/ Quiet /\ SetChange
    \/ Quiet /\ CustomPhraseChange
    \/ Quiet /\ PhraseSubmit
    \/ Quiet /\ Tick
    \/ Quiet /\ Poll
    \/ Quiet /\ AutoAdvance
    \/ UtteranceEnd

Spec == Init /\ [][Next]_vars

\* The same program where the user leaves the custom-phrase form alone.  Time
\* passes and the callbacks that are due run: the browser's event loop runs a
\* due timer callback, nothing in the program holds the clock back, and the
\* synthesizer comes to the end of what it speaks.
FairKeyPress == KeyPressWithin(FairMaxTimeouts)

FairNext ==
    \/ Quiet /\ FairKeyPress
    \/ Quiet /\ NextClick
    \/ Quiet /\ PrevClick
    \/ Quiet /\ SetChange
    \/ Quiet /\ Tick
    \/ Quiet /\ Poll
    \/ Quiet /\ AutoAdvance
    \/ UtteranceEnd

FairSpec ==
    /\ Init
    /\ [][FairNext]_vars
    /\ WF_vars(Quiet /\ Tick)
    /\ WF_vars(Quiet /\ Poll)
    /\ WF_vars(Quiet /\ AutoAdvance)
    /\ WF_vars(UtteranceEnd)

\* The program over preferences stored before, with custom phrases of
\* several words and the switches of the settings panel, within the second
\* after the page is loaded (the clock is left to Spec).
ViewInit ==
    \E name \in PrefNames, sample \in StoredPrefSamples :
        InitOver([n \in PrefNames |-> IF n = name THEN sample ELSE NoItem])

ViewKeyPress ==
    \E key \in ViewKeys :
        /\ mounted
        /\ Completes(key) => Len(timeouts) < MaxTimeouts
        /\ handleKeyPress(key)
        /\ TimerEffect
        /\ UNCHANGED <<prefs, single>>

ViewCustomPhraseChange ==
    \E text \in ViewTexts \ {customPhrase} :
        /\ mounted
        /\ handleCustomPhraseChange(text)
        /\ timeouts' = UserActed(timeouts)
        /\ UNCHANGED spoken
        /\ TimerEffect
        /\ UNCHANGED <<prefs, single>>

\* The switches of the settings panel (l.690-692, l.708-710, l.726-728), each
\* with the effect that stores the flag (l.517-527)
ToggleShowSpaceCharacter ==
    /\ mounted
    /\ showSpaceCharacter' = Not(showSpaceCharacter)
    /\ storedPrefs' = [storedPrefs EXCEPT !["showSpaceCharacter"] =
                                            JSONstringify(showSpaceCharacter')]
    /\ timeouts' = UserActed(timeouts)
    /\ thrown' = "none"
    /\ UNCHANGED spoken
    /\ UNCHANGED <<session, customPhrase, pollDue, mounted, intervals,
                   timerRefLive, showKeyboard, enableKeyTTS, loadedPrefs,
                   single>>

ToggleKeyTTS ==
    /\ mounted
    /\ enableKeyTTS' = Not(enableKeyTTS)
    /\ storedPrefs' = [storedPrefs EXCEPT !["enableKeyTTS"] =
                                            JSONstringify(enableKeyTTS')]
    /\ timeouts' = UserActed(timeouts)
    /\ thrown' = "none"
    /\ UNCHANGED spoken
    /\ UNCHANGED <<session, customPhrase, pollDue, mounted, intervals,
                   timerRefLive, showKeyboard, showSpaceCharacter,
                   loadedPrefs,
                   single>>

ToggleShowKeyboard ==
    /\ mounted
    /\ showKeyboard' = Not(showKeyboard)
    /\ storedPrefs' = [storedPrefs EXCEPT !["showKeyboard"] =
                                            JSONstringify(showKeyboard')]
    /\ timeouts' = UserActed(timeouts)
    /\ thrown' = "none"
    /\ UNCHANGED spoken
    /\ UNCHANGED <<session, customPhrase, pollDue, mounted, intervals,
                   timerRefLive, showSpaceCharacter, enableKeyTTS,
                   loadedPrefs,
                   single>>

ViewNext ==
    \/ ViewKeyPress
    \/ ViewCustomPhraseChange
    \/ PhraseSubmit
    \/ ToggleShowSpaceCharacter
    \/ ToggleKeyTTS
    \/ ToggleShowKeyboard
    \/ UtteranceEnd

\* The custom-phrase field and its form alone, over every text of SetupTexts
SetupCustomPhraseChange ==
    \E text \in SetupTexts \ {customPhrase} :
        /\ mounted
        /\ handleCustomPhraseChange(text)
        /\ timeouts' = UserActed(timeouts)
        /\ UNCHANGED spoken
        /\ TimerEffect
        /\ UNCHANGED <<prefs, single>>

SetupNext ==
    \/ SetupCustomPhraseChange
    \/ PhraseSubmit

SetupSpec == Init /\ [][SetupNext]_vars

ViewSpec == ViewInit /\ [][ViewNext]_vars

----------------------------------------------------------------------------
(* The single-phrase component (part_000)                                  *)

\* What the user can type into its custom-phrase field, and the values of
\* event.key the user can produce
SingleTexts == { <<>>, <<" ">>, <<"H", "i">> }

SingleKeys ==
    { <<InitialPhrase[n]>> : n \in DOMAIN InitialPhrase }
    \cup { <<"H">>, <<"I">>, <<"S", "h", "i", "f", "t">> }

\* part_000 l.49: char === phrase[currentIndex], undefined at the end
SingleMatches(char) ==
    /\ currentIndex < Len(phrase)
    /\ char = <<phrase[currentIndex + 1]>>

\* part_000 l.45-70.  speakLetter and speakPhrase (part_000 l.86-107) are
\* those of the full component.
Single_handleKeyPress(key) ==
    LET char == ToLowerCase(key) IN
    IF SingleMatches(char)
    THEN /\ userInput' = userInput \o char
         /\ currentIndex' = currentIndex + 1
         /\ IF currentIndex + 1 = Len(phrase)
            THEN /\ spoken' = speakPhrase(speakLetter(spoken, char),
                                 <<"Great job! You finished the phrase!">>)
                 /\ restarts' = Append(restarts, RestartDelayMs)
            ELSE /\ spoken' = speakLetter(spoken, char)
                 /\ UNCHANGED restarts
         /\ UNCHANGED <<phrase, customPhrase>>
    ELSE UNCHANGED <<userInput, currentIndex, spoken, restarts, phrase,
                     customPhrase>>

\* part_000 l.72-83
Single_handlePhraseSubmit ==
    IF Trim(customPhrase) # <<>>
    THEN /\ phrase' = ToLowerCase(Trim(customPhrase))
         /\ userInput' = <<>>
         /\ currentIndex' = 0
         /\ customPhrase' = <<>>
    ELSE UNCHANGED <<phrase, userInput, currentIndex, customPhrase>>

\* What the single-phrase component does not have
full == <<currentSetKey, currentPhraseIndex, displayPhrase, typingPhrase,
          startTime, elapsedTime, isTimerRunning, previousTime, storedTimes,
          timeouts, pollDue, mounted, intervals, timerRefLive, prefs>>

\* A key goes down in the hidden input (part_000 l.270), with room for the
\* timeout a completion sets
SingleKeyPress ==
    \E key \in SingleKeys :
        /\ (SingleMatches(ToLowerCase(key)) /\ currentIndex + 1 = Len(phrase))
             => Len(restarts) < MaxRestarts
        /\ Single_handleKeyPress(key)
        /\ thrown' = "none"
        /\ UNCHANGED full

\* The custom-phrase field follows what is typed into it (part_000 l.327)
SingleCustomPhraseChange ==
    \E text \in SingleTexts \ {customPhrase} :
        /\ customPhrase' = text
        /\ thrown' = "none"
        /\ UNCHANGED <<phrase, userInput, currentIndex, restarts, spoken, full>>

\* The custom-phrase form is submitted (part_000 l.323)
SinglePhraseSubmit ==
    /\ Single_handlePhraseSubmit
    /\ thrown' = "none"
    /\ UNCHANGED <<restarts, spoken, full>>

\* A second passes while a restart is pending and none is due
SingleTick ==
    /\ restarts # <<>>
    /\ \A n \in DOMAIN restarts : restarts[n] > 0
    /\ restarts' = [n \in DOMAIN restarts |-> restarts[n] - MsPerSecond]
    /\ thrown' = "none"
    /\ UNCHANGED <<phrase, userInput, currentIndex, customPhrase, spoken,
                   full>>

\* The oldest timeout callback runs once its delay is over (part_000 l.64-67)
Restart ==
    /\ restarts # <<>>
    /\ Head(restarts) = 0
    /\ restarts' = Tail(restarts)
    /\ userInput' = <<>>
    /\ currentIndex' = 0
    /\ thrown' = "none"
    /\ UNCHANGED <<phrase, customPhrase, spoken, full>>

SingleNext ==
    \/ Quiet /\ SingleKeyPress
    \/ Quiet /\ SingleCustomPhraseChange
    \/ Quiet /\ SinglePhraseSubmit
    \/ Quiet /\ SingleTick
    \/ Quiet /\ Restart
    \/ UtteranceEnd

SinglePhraseSpec == Init /\ [][SingleNext]_vars

TypeOK ==
    /\ currentSetKey \in SetKeys
    /\ currentPhraseIndex \in Nat
    /\ typingPhrase \in TypingPhrases
    /\ currentIndex \in Nat
    /\ customPhrase \in CustomTexts \cup ViewTexts \cup SetupTexts
                        \cup SingleTexts
    /\ startTime \in Nat \cup {Null}
    /\ elapsedTime \in Nat
    /\ isTimerRunning \in BOOLEAN
    /\ previousTime \in Nat \cup {Null}
    /\ Len(timeouts) <= FairMaxTimeouts
    /\ pollDue \in BOOLEAN
    /\ mounted \in BOOLEAN
    /\ thrown \in {"none", "TypeError", "SyntaxError"}
    /\ intervals \in Nat
    /\ timerRefLive \in BOOLEAN
    /\ \A name \in PrefNames : storedPrefs[name] \in Seq(STRING)

----------------------------------------------------------------------------
(* Properties                                                              *)

\* The expected character compared with a key, lower-cased on both sides
SameUpToCase(key) ==
    ToLowerCase(key) = ToLowerCase(<<typingPhrase[currentIndex + 1]>>)

\* The key press handler, given this key, moves the cursor forward
KeyAdvances(key) ==
    ENABLED (handleKeyPress(key) /\ currentIndex' = currentIndex + 1)

\* A custom phrase that is not blank is submitted
CustomPhraseAccepted == PhraseSubmit /\ Trim(customPhrase) # <<>>

\* The user navigates, changes set or submits a custom phrase
UserLeaves == NextClick \/ PrevClick \/ SetChange \/ CustomPhraseAccepted

\* The step is an accepted keystroke that completes the phrase
CompletionStep ==
    currentIndex' = currentIndex + 1 /\ currentIndex' = Len(typingPhrase)

\* Cursor, input and timer are those of a fresh attempt
AttemptReset ==
    /\ currentIndex = 0
    /\ userInput = <<>>
    /\ startTime = Null
    /\ elapsedTime = 0
    /\ ~isTimerRunning

(* C1: with the cursor inside the typing phrase, handleKeyPress moves the   *)
(* cursor forward for a key if and only if the key equals the expected      *)
(* character up to case; some key is accepted, and any two accepted keys    *)
(* are the same character up to case.                                       *)
C1_AcceptsIffSameUpToCase ==
    (mounted /\ currentIndex < Len(typingPhrase)) =>
        /\ \A key \in Keys : KeyAdvances(key) <=> SameUpToCase(key)
        /\ \E key \in Keys : KeyAdvances(key)
        /\ \A k1, k2 \in Keys :
              KeyAdvances(k1) /\ KeyAdvances(k2)
                 => ToLowerCase(k1) = ToLowerCase(k2)

\* After "h" was taken for "H": "i" is accepted, "h", "H" and "Shift" are not.
C1_Witness ==
    /\ typingPhrase = <<"H", "i", "!">>
    /\ userInput = <<"H">>
    /\ currentIndex = 1
    /\ KeyAdvances(<<"i">>)
    /\ ~KeyAdvances(<<"h">>)
    /\ ~KeyAdvances(<<"H">>)
    /\ ~KeyAdvances(<<"S", "h", "i", "f", "t">>)

(* C2: a key that does not match the expected character leaves cursor,      *)
(* input, start time, elapsed seconds, timer-running flag, previous time,   *)
(* phrase index and stored times as they were, at every cursor position.    *)
C2_RejectedKeyChangesNothing ==
    [][\A key \in Keys :
          (/\ mounted
           /\ currentIndex < Len(typingPhrase)
           /\ ~SameUpToCase(key)
           /\ handleKeyPress(key))
          => UNCHANGED <<currentIndex, userInput, startTime, elapsedTime,
                         isTimerRunning, previousTime, currentPhraseIndex,
                         storedTimes>>]_vars

(* C3: the timer starts (the start time is set, the running flag raised)    *)
(* only in a step that is an accepted keystroke taking the cursor from 0    *)
(* to 1.                                                                    *)
C3_TimerStartsOnFirstAccept ==
    [][((startTime = Null /\ startTime' # Null)
        \/ (~isTimerRunning /\ isTimerRunning'))
       => (currentIndex = 0 /\ currentIndex' = 1)]_vars

(* C4: when the user goes to the next or previous phrase, changes set or    *)
(* submits a custom phrase while an auto-advance is pending, the pending    *)
(* auto-advance is cancelled.                                               *)
C4_LeavingCancelsAutoAdvance ==
    [][(UserLeaves /\ timeouts # <<>>) => timeouts' = <<>>]_vars

(* C5: a completion leaves the timer stopped and sets exactly one           *)
(* auto-advance, for the phrase on screen and with the full delay; no       *)
(* other step sets one; an auto-advance leaves the pending ones only by     *)
(* running, the oldest first, once its delay has run out; and while it      *)
(* waits its closure is untouched and its delay only runs down.             *)
C5_OneAutoAdvancePerCompletion ==
    [][/\ CompletionStep =>
             /\ ~isTimerRunning'
             /\ Closures(timeouts') =
                  Append(Closures(timeouts),
                         [setKey |-> currentSetKey,
                          index |-> currentPhraseIndex,
                          delay |-> AdvanceDelayMs])
       /\ Len(timeouts') > Len(timeouts) => CompletionStep
       /\ Len(timeouts') < Len(timeouts) =>
             /\ Head(timeouts).delay = 0
             /\ timeouts' = Tail(timeouts)
       /\ Len(timeouts') = Len(timeouts) =>
             \A n \in DOMAIN timeouts :
                /\ timeouts'[n].setKey = timeouts[n].setKey
                /\ timeouts'[n].index = timeouts[n].index
                /\ timeouts'[n].delay \in
                     {timeouts[n].delay, timeouts[n].delay - MsPerSecond}
      ]_vars

\* A completed phrase whose time is stored and whose auto-advance is due
C5_Witness ==
    /\ currentIndex = Len(typingPhrase)
    /\ userInput = <<"c", "a", "t">>
    /\ ~isTimerRunning
    /\ storedTimes[typingPhrase] # NoItem
    /\ Len(timeouts) = 1
    /\ Head(timeouts).delay = 0
    /\ ENABLED (AutoAdvance /\ timeouts' = <<>>)

(* C6: the cursor stays within 0..length of the typing phrase, and a step   *)
(* leaves it alone, moves it forward by exactly one (an accepted            *)
(* keystroke) or puts it back to 0 (a session reset).                       *)
C6_CursorMoves ==
    /\ [](currentIndex >= 0 /\ currentIndex <= Len(typingPhrase))
    /\ [][\/ currentIndex' = currentIndex
          \/ /\ currentIndex' = currentIndex + 1
             /\ currentIndex < Len(typingPhrase)
             /\ \E key \in Keys : SameUpToCase(key) /\ handleKeyPress(key)
          \/ /\ currentIndex' = 0
             /\ UserLeaves \/ AutoAdvance
         ]_vars

\* The cursor at the end of a three-character phrase, about to be reset
C6_Witness ==
    /\ currentIndex = 3
    /\ currentIndex = Len(typingPhrase)
    /\ ENABLED (NextClick /\ currentIndex' = 0)

(* C7: no keystroke raises an error; one that arrives with the cursor at    *)
(* or past the end of the typing phrase (a completed phrase, an empty       *)
(* phrase) is ignored and changes nothing.                                  *)
C7_NoKeystrokeThrows ==
    [][\A key \in Keys :
          (mounted /\ handleKeyPress(key)) =>
             /\ thrown' = "none"
             /\ currentIndex >= Len(typingPhrase) => UNCHANGED session]_vars

\* The phrase at index i of set k was completed and no user event came since
AwaitingAdvance(k, i) ==
    /\ timeouts # <<>>
    /\ timeouts[Len(timeouts)].fresh
    /\ timeouts[Len(timeouts)].setKey = k
    /\ timeouts[Len(timeouts)].index = i

\* A user event came after the latest completion, its auto-advance pending
Intervened == timeouts # <<>> /\ ~timeouts[Len(timeouts)].fresh

IdleAt(k, i) ==
    currentSetKey = k /\ currentPhraseIndex = i /\ AttemptReset

(* C8: once a phrase is completed, unless a user event intervenes, the      *)
(* session eventually is idle (cursor 0, input empty, timer cleared) at     *)
(* the phrase index (completed index + 1) mod the phrase count of the set.  *)
C8_CompletionLeadsToNextPhrase ==
    \A k \in SetKeys :
        \A i \in 0..(Len(availableSets[k]) - 1) :
            AwaitingAdvance(k, i)
               ~> (IdleAt(k, (i + 1) % Len(availableSets[k])) \/ Intervened)

(* C9: a set change, next, previous, an accepted custom phrase and the      *)
(* automatic advance each leave cursor 0, input empty, start time unset,    *)
(* elapsed seconds 0 and the timer not running.                             *)
C9_ResetsLeaveFreshAttempt ==
    [][(UserLeaves \/ AutoAdvance) => AttemptReset']_vars

\* A running timer that shows a second, which each of the resets discards
C9_Witness ==
    /\ isTimerRunning
    /\ elapsedTime = 1
    /\ currentIndex = 2
    /\ customPhrase = <<"c", "a", "t", "registered">>
    /\ Len(timeouts) = 1
    /\ Head(timeouts).delay = 0
    /\ ENABLED (NextClick /\ AttemptReset')
    /\ ENABLED (PrevClick /\ AttemptReset')
    /\ ENABLED (SetChange /\ AttemptReset')
    /\ ENABLED (PhraseSubmit /\ AttemptReset')
    /\ ENABLED (AutoAdvance /\ AttemptReset')

(* C10: an accepted keystroke at cursor i appends typingPhrase[i], in the   *)
(* phrase's own case, to userInput and moves the cursor to i + 1.           *)
C10_AcceptAppendsPhraseCharacter ==
    [][\A key \in Keys :
          (/\ mounted
           /\ currentIndex < Len(typingPhrase)
           /\ SameUpToCase(key)
           /\ handleKeyPress(key))
          => /\ userInput' = Append(userInput, typingPhrase[currentIndex + 1])
             /\ currentIndex' = currentIndex + 1]_vars

\* "H" and "i" typed against "Hi!", where the key "h" puts "H" and the key "!"
\* completes "Hi!"
C10_Witness ==
    /\ typingPhrase = <<"H", "i", "!">>
    /\ userInput = <<"H", "i">>
    /\ currentIndex = 2
    /\ ENABLED (/\ handleKeyPress(<<"!">>)
                /\ userInput' = <<"H", "i", "!">>
                /\ currentIndex' = 3)
    /\ ENABLED (/\ NextClick
                /\ currentPhraseIndex' = 1)

(* C11: the time stored for a typing phrase is the best completion time so  *)
(* far: once a time is stored for a phrase, no step replaces it by a        *)
(* larger one, and a completion stores the smaller of the stored time and   *)
(* the time of the attempt.                                                 *)
C11_StoredTimeIsBest ==
    [][\A t \in TypingPhrases :
          storedTimes[t] # NoItem =>
             /\ storedTimes'[t] # NoItem
             /\ ParseInt(storedTimes'[t]) <= ParseInt(storedTimes[t])]_vars

(* C12: every run of goToNextPhrase (the button, the automatic advance)     *)
(* sets the phrase index to (i + 1) mod n and goToPrevPhrase to             *)
(* (i - 1 + n) mod n, i the phrase index and n the phrase count of the      *)
(* active set when it runs.                                                 *)
C12_NextPrevWrapAround ==
    [][LET n == Len(availableSets[currentSetKey]) IN
       /\ (NextClick \/ (mounted /\ AutoAdvance)) =>
             currentPhraseIndex' = (currentPhraseIndex + 1) % n
       /\ PrevClick =>
             currentPhraseIndex' = (currentPhraseIndex - 1 + n) % n]_vars

(* C13: choosing a phrase set makes it the active set at phrase index 0,    *)
(* with the first phrase of that set as display phrase and its typing form  *)
(* as typing phrase, whatever the index and the active phrase were.         *)
C13_SetChangeInstallsFirstPhrase ==
    [][\A k \in SetKeys \ {currentSetKey} :
          (mounted /\ handleSetChange(k)) =>
             /\ currentSetKey' = k
             /\ currentPhraseIndex' = 0
             /\ displayPhrase' = availableSets[k][1]
             /\ typingPhrase' = setupPhrase(availableSets[k][1]).typing]_vars

\* A custom phrase is active at phrase index 1, and the other set is chosen
C13_Witness ==
    /\ currentSetKey = "familySet"
    /\ currentPhraseIndex = 1
    /\ displayPhrase = <<"c", "a", "t", "registered">>
    /\ currentIndex = 1
    /\ ENABLED (/\ SetChange
                /\ currentSetKey' = "petSet"
                /\ currentPhraseIndex' = 0
                /\ displayPhrase' = <<"c", "a", "t">>)

(* C14: the time stored on completion is the whole seconds between the      *)
(* start of the timer and the completing keystroke.                         *)
C14_RecordedTimeIsWholeSeconds ==
    [][CompletionStep =>
          storedTimes'[typingPhrase] = NumToString(startTime' \div MsPerSecond)
      ]_vars

\* The completion text for a previous time p and the time f of the attempt,
\* in the words of the claim
Narrated(p, f) ==
    <<"Great job! You finished in ">> \o NumToString(f) \o <<" seconds. ">>
       \o (CASE p = Null -> <<"That's your first attempt with this phrase.">>
             [] p # Null /\ p > f ->
                  <<"You were ">> \o NumToString(p - f)
                     \o <<" seconds faster!">>
             [] p # Null /\ p < f ->
                  <<"You were ">> \o NumToString(f - p)
                     \o <<" seconds slower.">>
             [] p # Null /\ p = f ->
                  <<"You matched your previous time exactly!">>)

(* C15: a completion with previous time p and final time f (the time it     *)
(* stores) says "faster" with p - f when p - f > 0, "slower" when           *)
(* p - f < 0, "matched exactly" when p = f, and a first attempt when there  *)
(* is no previous time.                                                     *)
C15_NarrationComparesTimes ==
    [][CompletionStep =>
          spoken' = <<Narrated(previousTime,
                               ParseInt(storedTimes'[typingPhrase]))>>]_vars

\* The last key of "cat" after a second on the clock, against a previous time
\* of 0: one second slower
C15_Witness ==
    /\ typingPhrase = <<"c", "a", "t">>
    /\ currentIndex = 2
    /\ previousTime = 0
    /\ elapsedTime = 1
    /\ ENABLED (/\ handleKeyPress(<<"t">>)
                /\ spoken'[1][Len(spoken'[1])] = " seconds slower.")

(* C17: the submission of a custom phrase that is empty after trimming      *)
(* leaves the phrase, the cursor, the input, the timer, the previous time   *)
(* and the custom-phrase field as they were.                                *)
C17_BlankSubmissionChangesNothing ==
    [][(PhraseSubmit /\ Trim(customPhrase) = <<>>) =>
          UNCHANGED <<session, customPhrase, pollDue, intervals>>]_vars

\* A blank in the field while the timer runs and a second is on the clock
C17_Witness ==
    /\ customPhrase = <<" ">>
    /\ isTimerRunning
    /\ elapsedTime = 1
    /\ currentIndex = 2
    /\ ENABLED (PhraseSubmit /\ UNCHANGED <<session, customPhrase>>)

(* C18: exactly one poll interval is live while the timer runs and none     *)
(* otherwise (after a completion, a session reset, the unmounting of the    *)
(* component); timerRef names a live interval exactly then.                 *)
C18_IntervalLiveIffRunning ==
    /\ intervals = (IF isTimerRunning THEN 1 ELSE 0)
    /\ timerRefLive = isTimerRunning
    /\ ~mounted => intervals = 0

\* A second attempt under way (a time is stored, the timer runs again), which
\* a key completes and a set change abandons
C18_Witness ==
    /\ storedTimes[typingPhrase] # NoItem
    /\ isTimerRunning
    /\ intervals = 1
    /\ currentIndex = 2
    /\ ENABLED (KeyPress /\ currentIndex' = 3 /\ intervals' = 0)
    /\ ENABLED (SetChange /\ intervals' = 0)

\* The flag of the given name
Flag(name) ==
    CASE name = "showKeyboard" -> showKeyboard
      [] name = "showSpaceCharacter" -> showSpaceCharacter
      [] name = "enableKeyTTS" -> enableKeyTTS

(* C16: when what is stored for a preference flag at construction is absent *)
(* or is not a stored boolean, its initialiser gives true without an        *)
(* error: the component is constructed, and the flag is a boolean from then *)
(* on.                                                                      *)
C16_CorruptPreferenceFallsBack ==
    \A name \in PrefNames :
        loadedPrefs[name] \notin {JsonTrue, JsonFalse} =>
            /\ PrefInitialiser(loadedPrefs[name]) = [ok |-> TRUE, value |-> "true"]
            /\ thrown # "SyntaxError"
            /\ Flag(name) \in {"true", "false"}

\* The position the claim gives for a character: that of its lower case in
\* the layout, else that of the base key it is the shifted symbol of
LayoutPositions(c) ==
    { pos \in [rowIndex : 0..4, keyIndex : 0..11] :
        /\ pos.keyIndex < Len(keyboardLayout[pos.rowIndex + 1])
        /\ keyboardLayout[pos.rowIndex + 1][pos.keyIndex + 1] = c }

FirstRowMajor(positions) ==
    CHOOSE pos \in positions :
        \A other \in positions :
            \/ pos.rowIndex < other.rowIndex
            \/ pos.rowIndex = other.rowIndex /\ pos.keyIndex <= other.keyIndex

BaseKeysOf(c) ==
    { shiftSymbols[n][1] : n \in { m \in DOMAIN shiftSymbols :
                                     shiftSymbols[m][2] = c } }

ClaimedPosition(c) ==
    IF LayoutPositions(LowerChar(c)) # {}
    THEN FirstRowMajor(LayoutPositions(LowerChar(c)))
    ELSE IF BaseKeysOf(c) # {}
         THEN FirstRowMajor(UNION { LayoutPositions(b) : b \in BaseKeysOf(c) })
         ELSE NoPosition

\* The characters of the layout, the upper-case letters, the shifted symbols
LayoutKeys == UNION { { keyboardLayout[r][k] : k \in 1..Len(keyboardLayout[r]) }
                        : r \in 1..Len(keyboardLayout) }

LocatedChars ==
    LayoutKeys \cup { UpperCase[n] : n \in 1..Len(UpperCase) }
               \cup { shiftSymbols[n][2] : n \in 1..Len(shiftSymbols) }

\* findKeyPosition on every such character, and on one that no key has
EveryCharLocated ==
    \A c \in LocatedChars \cup {"~"} :
        /\ findKeyPosition(c) = ClaimedPosition(c)
        /\ c \in LocatedChars => findKeyPosition(c) # NoPosition

(* C19: the key position computed for the next character is the position    *)
(* of its lower case in the layout, else that of the base key whose         *)
(* shifted symbol it is, else none; and it is a position for every layout   *)
(* key, upper-case letter and shifted symbol.                               *)
C19_KeyPositionFound ==
    /\ nextChar # NoChar =>
          /\ keyPosition = ClaimedPosition(nextChar)
          /\ nextChar \in LocatedChars => keyPosition # NoPosition
    /\ EveryCharLocated

\* "@" is next after "Ab c": the position shown is that of the key "2"
C19_Witness ==
    /\ typingPhrase = <<"A", "b", " ", "c", "@">>
    /\ currentIndex = 4
    /\ nextChar = "@"
    /\ keyPosition = [rowIndex |-> 0, keyIndex |-> 1]
    /\ findKeyPosition("A") = [rowIndex |-> 2, keyIndex |-> 0]
    /\ findKeyPosition("~") = NoPosition

\* The start and the end of the word at the cursor, in the words of the claim
ClaimedWordEnd ==
    IF \E n \in (currentIndex + 1)..Len(typingPhrase) : typingPhrase[n] = " "
    THEN (CHOOSE n \in (currentIndex + 1)..Len(typingPhrase) :
             /\ typingPhrase[n] = " "
             /\ \A m \in (currentIndex + 1)..(n - 1) : typingPhrase[m] # " ")
         - 1
    ELSE Len(typingPhrase)

(* C20: with the cursor inside the phrase, the remaining letters are the    *)
(* characters from the cursor up to the next space or the end of the        *)
(* phrase; with the cursor at or past the end, the word and the list are    *)
(* empty.                                                                   *)
C20_RemainingLettersFromCursor ==
    IF currentIndex < Len(typingPhrase)
    THEN getCurrentWordInfo.remainingLetters =
            SubSeq(typingPhrase, currentIndex + 1, ClaimedWordEnd)
    ELSE /\ getCurrentWordInfo.currentWord = <<>>
         /\ getCurrentWordInfo.remainingLetters = <<>>

(* C21: while the component is mounted, what is stored for each preference  *)
(* flag is the text of the flag in memory, after any sequence of toggles,   *)
(* and the initialiser applied to what is stored gives back exactly the     *)
(* flag.                                                                    *)
C21_StoredPreferenceRestoresFlag ==
    mounted =>
        \A name \in PrefNames :
            /\ storedPrefs[name] = JSONstringify(Flag(name))
            /\ PrefInitialiser(storedPrefs[name]) =
                  [ok |-> TRUE, value |-> Flag(name)]

\* Nothing was stored at load and the keyboard was switched off since; either
\* switch stores the flag it leaves
C21_Witness ==
    /\ loadedPrefs = [name \in PrefNames |-> NoItem]
    /\ showKeyboard = "false"
    /\ storedPrefs["showKeyboard"] = JsonFalse
    /\ showSpaceCharacter = "true"
    /\ storedPrefs["showSpaceCharacter"] = JsonTrue
    /\ ENABLED (ToggleShowSpaceCharacter
                /\ storedPrefs'["showSpaceCharacter"] = JsonFalse)
    /\ ENABLED (ToggleShowKeyboard /\ storedPrefs'["showKeyboard"] = JsonTrue)

\* What is said for a key (l.332)
LetterSaid(key) == IF key = <<" ">> THEN <<"space">> ELSE key

(* C22: the synthesizer never holds more than one utterance; a key press    *)
(* that speaks leaves exactly its latest request, whatever was held before: *)
(* the completion text on a completing key, else the letter of an accepted  *)
(* key when key speech is on; a key press that does not speak leaves what   *)
(* was held.                                                                *)
C22_LatestUtteranceOnly ==
    /\ [](Len(spoken) <= 1)
    /\ [][\A key \in ViewKeys :
            (mounted /\ handleKeyPress(key)) =>
               IF currentIndex' = currentIndex + 1
               THEN IF currentIndex' = Len(typingPhrase)
                    THEN /\ Len(spoken') = 1
                         /\ spoken'[1][1] = "Great job! You finished in "
                    ELSE IF enableKeyTTS = "true"
                         THEN spoken' = <<LetterSaid(key)>>
                         ELSE UNCHANGED spoken
               ELSE UNCHANGED spoken]_vars

\* "~" is still being said when "2" completes "~2" with key speech on
C22_Witness ==
    /\ typingPhrase = <<"~", "2">>
    /\ currentIndex = 1
    /\ enableKeyTTS = "true"
    /\ spoken = << <<"~">> >>
    /\ ENABLED (/\ handleKeyPress(<<"2">>)
                /\ Len(spoken') = 1
                /\ spoken'[1][1] = "Great job! You finished in ")

(* C23: the phrase index is at least 0 and less than the phrase count of    *)
(* the active set in every reachable state.                                 *)
C23_PhraseIndexInRange ==
    /\ currentPhraseIndex >= 0
    /\ currentPhraseIndex < Len(availableSets[currentSetKey])

(* C24: whenever a keystroke can be typed (the component is mounted and the *)
(* cursor is inside the typing phrase), previousTime is the time stored for *)
(* the typing phrase, and null exactly when none is stored.                 *)
C24_PreviousTimeIsStoredTime ==
    (mounted /\ currentIndex < Len(typingPhrase)) =>
        previousTime = LoadPreviousTime(typingPhrase, storedTimes)

(* C25: userInput is the first currentIndex characters of the typing        *)
(* phrase in every reachable state.                                         *)
C25_InputIsTypedPrefix ==
    /\ currentIndex <= Len(typingPhrase)
    /\ Len(userInput) = currentIndex
    /\ userInput = SubSeq(typingPhrase, 1, currentIndex)

\* "H" is typed while the auto-advance of an earlier completion is due: the
\* next key extends the input, the auto-advance empties it
C25_Witness ==
    /\ typingPhrase = <<"H", "i", "!">>
    /\ userInput = <<"H">>
    /\ currentIndex = 1
    /\ timeouts # <<>>
    /\ Head(timeouts).delay = 0
    /\ ENABLED (AutoAdvance /\ userInput' = <<>> /\ currentIndex' = 0)
    /\ ENABLED (KeyPress /\ userInput' = <<"H", "i">> /\ currentIndex' = 2)

(* C26: an accepted custom phrase submission installs a typing phrase of    *)
(* at least one character.                                                  *)
C26_CustomPhraseNotEmpty ==
    [][CustomPhraseAccepted => Len(typingPhrase') >= 1]_vars

(* C27: the timer fields are coherent: a running timer has a start time     *)
(* and a cursor before the end of the phrase; without a start time the      *)
(* elapsed seconds are 0 and the timer does not run; and a start time, once *)
(* set, stays the same instant until a session reset clears it.             *)
C27_TimerFieldsCoherent ==
    /\ [](/\ isTimerRunning =>
               (startTime # Null /\ currentIndex < Len(typingPhrase))
          /\ startTime = Null => (elapsedTime = 0 /\ ~isTimerRunning))
    /\ [][startTime # Null =>
             \/ startTime' = startTime
             \/ Tick /\ startTime' = startTime + MsPerSecond
             \/ (UserLeaves \/ AutoAdvance) /\ startTime' = Null]_vars

\* The equivalent of one character under specialCharMap
Equivalent(c) ==
    IF \E n \in DOMAIN specialCharMap : specialCharMap[n][1] = c
    THEN specialCharMap[CHOOSE n \in DOMAIN specialCharMap :
                            specialCharMap[n][1] = c][2]
    ELSE <<c>>

RECURSIVE EachReplaced(_)
EachReplaced(text) ==
    IF text = <<>> THEN <<>>
    ELSE Equivalent(Head(text)) \o EachReplaced(Tail(text))

\* The characters the mapping removes
RemovedChars == { "trademark", "registered", "copyright" }

HasRemoved(text) == \E i \in DOMAIN text : text[i] \in RemovedChars

\* What the claim says of the two forms of one original text
FormsAsClaimed(original, display, typing) ==
    /\ display = original
    /\ typing = EachReplaced(original)
    /\ Len(typing) <= Len(display)
    /\ (Len(typing) = Len(display)) <=> ~HasRemoved(original)
    /\ ~HasRemoved(original) =>
          \A i \in DOMAIN display : <<typing[i]>> = Equivalent(display[i])

\* Each entry of the map alone, and every text of SetupTexts
EveryTextAsClaimed ==
    \A text \in SetupTexts
               \cup { <<specialCharMap[n][1]>> : n \in DOMAIN specialCharMap } :
        FormsAsClaimed(text, setupPhrase(text).display,
                       setupPhrase(text).typing)

(* C28: setupPhrase keeps the original text as the display form and makes   *)
(* the typing form by replacing every occurrence of each mapped character   *)
(* with its equivalent; the typing form is never longer, the two have the   *)
(* same length exactly when the original has none of the removed            *)
(* characters, and then index i of one corresponds to index i of the other. *)
C28_SetupPhraseForms ==
    /\ [](EveryTextAsClaimed
          /\ FormsAsClaimed(displayPhrase, displayPhrase, typingPhrase))
    /\ [][CustomPhraseAccepted =>
             FormsAsClaimed(Trim(customPhrase), displayPhrase',
                            typingPhrase')]_vars

\* A phrase with a mapped character twice and a removed one between was
\* submitted and installed
C28_Witness ==
    /\ displayPhrase = <<"sub2", "trademark", "sub2">>
    /\ typingPhrase = <<"2", "2">>
    /\ customPhrase = <<>>
    /\ userInput = <<>>

(* C29: in the single-phrase component the restart a completion schedules   *)
(* acts on the completed attempt only: when it runs, either the phrase is   *)
(* typed to its end, or nothing is typed and it changes nothing (it takes   *)
(* no progress from a custom phrase submitted during the delay); it empties *)
(* the input, puts the cursor at 0 and leaves the phrase as it is; and each *)
(* completion schedules one restart, 3 seconds ahead.                       *)
C29_RestartOnlyCompletedAttempt ==
    [][/\ Restart =>
             /\ \/ currentIndex = Len(phrase) /\ userInput = phrase
                \/ currentIndex = 0 /\ userInput = <<>>
             /\ currentIndex' = 0
             /\ userInput' = <<>>
             /\ phrase' = phrase
       /\ (currentIndex' = currentIndex + 1 /\ currentIndex' = Len(phrase))
             => restarts' = Append(restarts, RestartDelayMs)]_vars

====
